---- MODULE Spec2Model ----
(***************************************************************************)
(* Credential store (auth.py) and bulk loader (data_layer.py).             *)
(*                                                                         *)
(* The bulk loader is a DatabaseLayer object that owns one sqlite3         *)
(* connection.  The database is the environment: `durable` is the          *)
(* committed content of the destination table, `pending` is what the open  *)
(* transaction of the loader's connection has inserted and not committed.  *)
(* A row of the table is kept by its origin; the values the loader writes  *)
(* are what it passes to executemany, which `run` records for the          *)
(* ingestion call under observation.                                       *)
(*                                                                         *)
(* Spec     is the loader under every sequence of its calls;               *)
(* SpecCsv  and SpecJson follow one ingestion input, drawn in Init,        *)
(*          through insert_from_csv / insert_from_json and what follows;   *)
(* SpecAuth is the credential store.                                       *)
(***************************************************************************)
EXTENDS Integers, Sequences, FiniteSets, TLC

\* ------------------------------------------------------------------ bounds
MaxCsvRows == 4      \* lines of the CSV file
MaxJsonLen == 3      \* elements of the JSON array
MaxBatch   == 2      \* batch_size is drawn from 1..MaxBatch
MaxPrior   == 1      \* rows the table may hold when a call starts to insert
MaxNameLen == 2      \* characters of a username
MaxUsers   == 2      \* records of users.txt

\* ------------------------------------------------------------- small values
\* Every text of the model (a CSV cell, a JSON key or value, a column name)
\* is a pair <<line, word>>: line 0 for the names the caller writes, line i
\* for what stands in line (or element) i of the source file.
Name(w) == <<0, w>>
None == "None"        \* no exception
Null == <<0, "NULL">>  \* Python's None as a value: SQL NULL

Range(s) == {s[i] : i \in 1..Len(s)}

RECURSIVE Concat(_)
Concat(ss) == IF ss = <<>> THEN <<>> ELSE Head(ss) \o Concat(Tail(ss))

\* ------------------------------------------------------------ source files
\* The caller's explicit `columns` argument (None = not given).
\* An optional argument is <<>> (None) or <<value>>.
ExplicitColumns == <<Name("id"), Name("name")>>
ColumnArgs == {<<>>, <<ExplicitColumns>>}

\* A CSV file as csv.reader yields it: one list of cells per line.  The cell
\* in line i, field j is the text <<i, Field[j]>>; a blank line is <<>>.
\* A line is blank or has one field fewer, as many, or one more than
\* ExplicitColumns.
Field == <<"a", "b", "c">>
Arities == 0..Len(Field)
CsvLine(i, n) == [j \in 1..n |-> <<i, Field[j]>>]
CsvFiles ==
    { [kind |-> "csv", rows |-> [i \in 1..Len(ar) |-> CsvLine(i, ar[i])]] :
        ar \in UNION {[1..n -> Arities] : n \in 0..MaxCsvRows} }

\* A JSON value is an object, the sequence of its (key, value) pairs in
\* file order, or Scalar, something that is not an object.  The value of
\* key k in element i is the text <<i, k>>.
Scalar == [isdict |-> FALSE, pairs |-> <<>>]
KeyOrders == {<<>>, <<"id">>, <<"id", "name">>, <<"name", "x">>}
JsonObject(i, ks) ==
    [isdict |-> TRUE, pairs |-> [j \in 1..Len(ks) |-> <<Name(ks[j]), <<i, ks[j]>>>>]]
JsonElems(i) == {JsonObject(i, ks) : ks \in KeyOrders} \cup {Scalar}
JsonArrays ==
    UNION { {a \in [1..n -> UNION {JsonElems(i) : i \in 1..n}] :
                \A i \in 1..n : a[i] \in JsonElems(i)} : n \in 0..MaxJsonLen }
JsonFiles ==
    { [kind |-> "json", root |-> "array", data |-> a] : a \in JsonArrays }
      \cup { [kind |-> "json", root |-> "object", data |-> o] :
                o \in JsonElems(1) \ {Scalar} }
      \cup { [kind |-> "json", root |-> "scalar", data |-> Scalar] }

\* ------------------------------------------------------- python dictionaries
\* A dict is the sequence of its (key, value) pairs in insertion order.
DictKeys(d) == [j \in 1..Len(d) |-> d[j][1]]

\* dict.get(k): the value of k, or None (stored by sqlite3 as NULL).
DictGet(d, k) ==
    IF \E j \in 1..Len(d) : d[j][1] = k
    THEN d[CHOOSE j \in 1..Len(d) : d[j][1] = k][2]
    ELSE Null

\* Mutant of row_values: the values by position instead of by key.
row_values_by_position(row, columns) ==
    [k \in 1..Len(columns) |-> IF k <= Len(row) THEN row[k][2] ELSE Null]

row_values(row, columns) == [k \in 1..Len(columns) |-> DictGet(row, columns[k])]

\* ------------------------------------------------------------ csv.DictReader
\* reader.fieldnames or []: the first line of the file, [] for an empty file.
DictReaderFieldnames(rows) == IF rows = <<>> THEN <<>> ELSE rows[1]

\* One dict per later line that is not blank: zip(fieldnames, line), the
\* missing fields filled with restval = None, the surplus ones kept under
\* the key None (which no column name equals).
DictReaderRow(fieldnames, line) ==
    [j \in 1..Len(fieldnames) |->
        <<fieldnames[j], IF j <= Len(line) THEN line[j] ELSE Null>>]

DictReaderRows(rows) ==
    LET later == SelectSeq(Tail(rows), LAMBDA l : l # <<>>)
    IN  [k \in 1..Len(later) |-> DictReaderRow(rows[1], later[k])]

\* ------------------------------------------------------------------ sqlite3
\* cursor.executemany(INSERT INTO t (cols) VALUES (?,..), batch): the
\* statement does not compile for an empty column list; otherwise the rows
\* are inserted one after the other until one has the wrong number of
\* bindings.  `rows` is what the open transaction has received.
RECURSIVE BoundPrefix(_, _)
BoundPrefix(n, batch) ==
    IF batch = <<>> \/ Len(Head(batch)) # n THEN <<>>
    ELSE <<Head(batch)>> \o BoundPrefix(n, Tail(batch))

executemany(cols, batch) ==
    IF cols = <<>> THEN [rows |-> <<>>, exc |-> "OperationalError(syntax)"]
    ELSE LET done == BoundPrefix(Len(cols), batch)
         IN  [rows |-> done,
              exc  |-> IF Len(done) = Len(batch) THEN None
                       ELSE "ProgrammingError(bindings)"]

\* ------------------------------------------------------- the ingestion loops
\* What one ingestion call has done when control leaves its try block:
\*   cols      columns_to_use
\*   appended  every tuple appended to `batch`, in order
\*   flushes   every batch passed to executemany, in order
\*   rows      the rows the transaction received from this call
\*   inserted  the running total of cursor.rowcount
\*   exc       the exception that ended the call, or None
\*   commits   whether the call reached its trailing conn.commit()
NoRun == [cols |-> <<>>, batch |-> <<>>, appended |-> <<>>, flushes |-> <<>>,
          rows |-> <<>>, inserted |-> 0, exc |-> None, commits |-> FALSE]

Flush(acc, batch, clear) ==
    LET ex == executemany(acc.cols, batch)
    IN  [acc EXCEPT !.flushes  = Append(@, batch),
                    !.rows     = @ \o ex.rows,
                    !.inserted = IF ex.exc = None THEN @ + Len(ex.rows) ELSE @,
                    !.batch    = IF ex.exc = None /\ clear THEN <<>> ELSE batch,
                    !.exc      = ex.exc]

\* if batch: executemany(...); then conn.commit()
Trailing(acc) ==
    LET a == IF acc.batch # <<>> THEN Flush(acc, acc.batch, FALSE) ELSE acc
    IN  IF a.exc # None THEN a ELSE [a EXCEPT !.commits = TRUE]

RECURSIVE CsvLoop(_, _, _)
CsvLoop(row_iter, batch_size, acc) ==
    IF row_iter = <<>> THEN Trailing(acc)
    ELSE LET vals_tuple == Head(row_iter)
             a1 == [acc EXCEPT !.batch = Append(@, vals_tuple),
                               !.appended = Append(@, vals_tuple)]
         IN  IF Len(a1.batch) >= batch_size
             THEN LET a2 == Flush(a1, a1.batch, TRUE)
                  IN  IF a2.exc # None THEN a2
                      ELSE CsvLoop(Tail(row_iter), batch_size, a2)
             ELSE CsvLoop(Tail(row_iter), batch_size, a1)

csv_run(rows, columns, has_header, batch_size) ==
    IF has_header /\ columns = <<>>
    THEN LET columns_to_use == DictReaderFieldnames(rows)
         IN  IF columns_to_use = <<>> THEN NoRun
             ELSE LET dicts == DictReaderRows(rows)
                      row_iter == [k \in 1..Len(dicts) |->
                                      row_values(dicts[k], columns_to_use)]
                  IN  CsvLoop(row_iter, batch_size,
                              [NoRun EXCEPT !.cols = columns_to_use])
    ELSE IF columns = <<>> THEN [NoRun EXCEPT !.exc = "ValueError"]
         ELSE CsvLoop(rows, batch_size, [NoRun EXCEPT !.cols = columns[1]])

RECURSIVE JsonLoop(_, _, _)
JsonLoop(data_list, batch_size, acc) ==
    IF data_list = <<>> THEN Trailing(acc)
    ELSE LET obj == Head(data_list)
         IN  IF ~obj.isdict THEN [acc EXCEPT !.exc = "ValueError"]
             ELSE LET vals == row_values(obj.pairs, acc.cols)
                      a1 == [acc EXCEPT !.batch = Append(@, vals),
                                        !.appended = Append(@, vals)]
                  IN  IF Len(a1.batch) >= batch_size
                      THEN LET a2 == Flush(a1, a1.batch, TRUE)
                           IN  IF a2.exc # None THEN a2
                               ELSE JsonLoop(Tail(data_list), batch_size, a2)
                      ELSE JsonLoop(Tail(data_list), batch_size, a1)

json_run(f, columns, batch_size) ==
    IF f.root \notin {"object", "array"} THEN [NoRun EXCEPT !.exc = "ValueError"]
    ELSE LET data_list == IF f.root = "object" THEN <<f.data>> ELSE f.data
         IN  IF data_list = <<>> THEN NoRun
             ELSE IF columns = <<>> /\ ~data_list[1].isdict
                  THEN [NoRun EXCEPT !.exc = "ValueError"]
             ELSE LET columns_to_use ==
                          IF columns = <<>> THEN DictKeys(data_list[1].pairs)
                          ELSE columns[1]
                  IN  JsonLoop(data_list, batch_size,
                               [NoRun EXCEPT !.cols = columns_to_use])

\* ------------------------------------------------------------ SQL statements
\* A statement text is its sequence of characters.
Whitespace == {" ", "\n"}
LowerOf(c) ==
    CASE c = "S" -> "s" [] c = "E" -> "e" [] c = "L" -> "l"
      [] c = "C" -> "c" [] c = "T" -> "t" [] OTHER -> c

RECURSIVE LStrip(_)
LStrip(s) == IF s # <<>> /\ Head(s) \in Whitespace THEN LStrip(Tail(s)) ELSE s
RECURSIVE RStrip(_)
RStrip(s) ==
    IF s # <<>> /\ s[Len(s)] \in Whitespace THEN RStrip(SubSeq(s, 1, Len(s) - 1))
    ELSE s
Strip(s) == RStrip(LStrip(s))
Lower(s) == [i \in 1..Len(s) |-> LowerOf(s[i])]
StartsWith(s, p) == Len(s) >= Len(p) /\ SubSeq(s, 1, Len(p)) = p

KwSelect == <<"s", "e", "l", "e", "c", "t">>
KwWith   == <<"w", "i", "t", "h">>
KwInsert == <<"i", "n", "s", "e", "r", "t">>

\* The statements the caller passes: two spellings of a query, a query that
\* starts with WITH, an insert of one row, and a statement sqlite rejects.
SqlTexts ==
    { KwSelect,
      <<" ", "S", "E", "L", "E", "C", "T">>,
      KwWith,
      KwInsert,
      <<"s", "e", "l", "e", "c">> }

\* Mutant of is_select: without lower().
is_select_cased(sql) == StartsWith(Strip(sql), KwSelect)

\* sql.strip().lower().startswith("select")
is_select(sql) == StartsWith(Lower(Strip(sql)), KwSelect)

\* What sqlite does with the statement: read rows, insert one, or refuse it.
SqlKind(sql) ==
    LET t == Lower(Strip(sql))
    IN  IF t \in {KwSelect, KwWith} THEN "read"
        ELSE IF t = KwInsert THEN "insert" ELSE "error"

\* -------------------------------------------------------------------- state
VARIABLES
    conn,       \* self.conn: 0 for None, else a connection handle
    openConns,  \* the handles sqlite3 has open
    durable,    \* rows committed to the destination table
    pending,    \* rows of the connection's open transaction
    inWith,     \* control is inside a `with DatabaseLayer(...)` block
    last,       \* the last call of the loader and what it gave back
    inp,        \* the ingestion input under observation
    run,        \* what the last ingestion call on `inp` did
    users,      \* users.txt: <<>> for no file, else <<text>>
    accepted,   \* the (username, password) pairs register_user accepted
    alast       \* the last call of the credential store

vars == <<conn, openConns, durable, pending, inWith, last, inp, run,
          users, accepted, alast>>

\* A table row: the call that inserted it, and whether that call raised
\* (the row is the remains of a call that failed).
Row(op, raised) == [op |-> op, raised |-> raised]
Tag(op, n, raised) == [k \in 1..n |-> Row(op, raised)]

\* What a call gives back: a count, or (isrows) the fetched rows.
Count(n) == [isrows |-> FALSE, count |-> n, rows |-> <<>>]
Rows(rs) == [isrows |-> TRUE, count |-> 0, rows |-> rs]

\* op, sql, fetch, exc_type: the call; value: what it returned; exc: the
\* exception it raised, or None; committed: it made the transaction durable;
\* dropped: the rows of the transaction it discarded.
Last(op, sql, fetch, exc_type, value, exc, committed, dropped) ==
    [op |-> op, sql |-> sql, fetch |-> fetch, exc_type |-> exc_type,
     value |-> value, exc |-> exc, committed |-> committed, dropped |-> dropped]

Plain(op, exc, committed, dropped) ==
    Last(op, <<>>, FALSE, FALSE, Count(0), exc, committed, dropped)

\* ------------------------------------------------------- connection lifecycle
\* sqlite3.connect: a handle that is not open yet.
NewHandle(open) == CHOOSE h \in 1..(Cardinality(open) + 1) : h \notin open

\* Mutant of connect: without the `if self.conn: return` guard.
connect_unguarded(c, open) ==
    LET h == NewHandle(open) IN [conn |-> h, open |-> open \cup {h}]

connect(c, open) ==
    IF c # 0 THEN [conn |-> c, open |-> open]
    ELSE LET h == NewHandle(open) IN [conn |-> h, open |-> open \cup {h}]

ensure_conn(c, open) == IF c = 0 THEN connect(c, open) ELSE [conn |-> c, open |-> open]

\* conn.commit(): the transaction becomes durable, unless sqlite refuses.
commit(d, p, commit_ok) ==
    IF commit_ok THEN [durable |-> d \o p, pending |-> <<>>, exc |-> None]
    ELSE [durable |-> d, pending |-> p, exc |-> "OperationalError(commit)"]

\* close(): commit, then (finally) close the handle, which drops whatever
\* the transaction still holds.
close(c, open, d, p, commit_ok) ==
    IF c # 0
    THEN LET k == commit(d, p, commit_ok)
         IN  [conn |-> 0, open |-> open \ {c}, durable |-> k.durable,
              pending |-> <<>>, exc |-> k.exc, committed |-> k.exc = None,
              dropped |-> Len(k.pending)]
    ELSE [conn |-> c, open |-> open, durable |-> d, pending |-> p, exc |-> None,
          committed |-> FALSE, dropped |-> 0]

\* Mutant of exit: close() without the rollback.
exit_without_rollback(exc_type, c, open, d, p, commit_ok) ==
    close(c, open, d, p, commit_ok)

\* __exit__: roll back on an exception, then close().
exit(exc_type, c, open, d, p, commit_ok) ==
    LET p1 == IF exc_type /\ c # 0 THEN <<>> ELSE p
        k  == close(c, open, d, p1, commit_ok)
    IN  [k EXCEPT !.dropped = @ + (Len(p) - Len(p1))]

Connect ==
    /\ LET k == connect(conn, openConns)
       IN  /\ conn' = k.conn
           /\ openConns' = k.open
    /\ last' = Plain("connect", None, FALSE, 0)
    /\ UNCHANGED <<durable, pending, inWith, inp, run, users, accepted, alast>>

Close(commit_ok) ==
    /\ LET k == close(conn, openConns, durable, pending, commit_ok)
       IN  /\ conn' = k.conn
           /\ openConns' = k.open
           /\ durable' = k.durable
           /\ pending' = k.pending
           /\ last' = Plain("close", k.exc, k.committed, k.dropped)
    /\ UNCHANGED <<inWith, inp, run, users, accepted, alast>>

Enter ==
    /\ ~inWith
    /\ LET k == connect(conn, openConns)
       IN  /\ conn' = k.conn
           /\ openConns' = k.open
    /\ inWith' = TRUE
    /\ last' = Plain("enter", None, FALSE, 0)
    /\ UNCHANGED <<durable, pending, inp, run, users, accepted, alast>>

Exit(exc_type, commit_ok) ==
    /\ inWith
    /\ LET k == exit(exc_type, conn, openConns, durable, pending, commit_ok)
       IN  /\ conn' = k.conn
           /\ openConns' = k.open
           /\ durable' = k.durable
           /\ pending' = k.pending
           /\ last' = Last("exit", <<>>, FALSE, exc_type, Count(0), k.exc, k.committed,
                           k.dropped)
    /\ inWith' = FALSE
    /\ UNCHANGED <<inp, run, users, accepted, alast>>

\* ------------------------------------------------------------------ run_sql
run_sql(sql, fetch, d, p, commit_ok) ==
    LET kind == SqlKind(sql)
    IN  IF kind = "error"
        THEN [durable |-> d, pending |-> p, value |-> Count(0),
              exc |-> "OperationalError(syntax)", committed |-> FALSE]
        ELSE LET will_commit == ~(is_select(sql) /\ fetch)
                 p1 == IF kind = "insert"
                       THEN Append(p, Row("run_sql", will_commit /\ ~commit_ok))
                       ELSE p
                 rowcount == IF kind = "insert" THEN 1 ELSE -1
             IN  IF is_select(sql) /\ fetch
                 THEN [durable |-> d, pending |-> p1, value |-> Rows(d \o p1),
                       exc |-> None, committed |-> FALSE]
                 ELSE LET k == commit(d, p1, commit_ok)
                      IN  [durable |-> k.durable, pending |-> k.pending,
                           value |-> Count(rowcount), exc |-> k.exc,
                           committed |-> k.exc = None]

RunSql(sql, fetch, commit_ok) ==
    /\ SqlKind(sql) = "insert" => Len(durable) + Len(pending) <= MaxPrior
    /\ LET e == ensure_conn(conn, openConns)
           r == run_sql(sql, fetch, durable, pending, commit_ok)
       IN  /\ conn' = e.conn
           /\ openConns' = e.open
           /\ durable' = r.durable
           /\ pending' = r.pending
           /\ last' = Last("run_sql", sql, fetch, FALSE, r.value, r.exc, r.committed, 0)
    /\ UNCHANGED <<inWith, inp, run, users, accepted, alast>>

\* ---------------------------------------------------------------- ingestion
\* What an ingestion call does to the loader and the database: n, the rows
\* it passed to the transaction; inserted, its count; exc; commits.
Outcome(r) ==
    [n |-> Len(r.rows), inserted |-> r.inserted, exc |-> r.exc, commits |-> r.commits]

\* _ensure_conn(); the loop; the trailing commit, when the loop reached it.
Ingest(op, o, commit_ok) ==
    /\ Len(durable) + Len(pending) <= MaxPrior
    /\ LET e   == ensure_conn(conn, openConns)
           exc == IF o.commits THEN commit(<<>>, <<>>, commit_ok).exc ELSE o.exc
           p1  == pending \o Tag(op, o.n, exc # None)
           k   == IF o.commits THEN commit(durable, p1, commit_ok)
                  ELSE [durable |-> durable, pending |-> p1, exc |-> o.exc]
       IN  /\ conn' = e.conn
           /\ openConns' = e.open
           /\ durable' = k.durable
           /\ pending' = k.pending
           /\ last' = Last(op, <<>>, FALSE, FALSE, Count(o.inserted), k.exc,
                           o.commits /\ k.exc = None, 0)
    /\ UNCHANGED <<inWith, users, accepted, alast>>

CsvArgs ==
    [file : CsvFiles, columns : ColumnArgs, has_header : BOOLEAN,
     batch_size : 1..MaxBatch]
JsonArgs ==
    [file : JsonFiles, columns : ColumnArgs, has_header : {TRUE},
     batch_size : 1..MaxBatch]

insert_from_csv(a) == csv_run(a.file.rows, a.columns, a.has_header, a.batch_size)
insert_from_json(a) == json_run(a.file, a.columns, a.batch_size)

CsvOutcomes == {Outcome(insert_from_csv(a)) : a \in CsvArgs}
JsonOutcomes == {Outcome(insert_from_json(a)) : a \in JsonArgs}

\* Any insert_from_csv / insert_from_json call.
InsertFromCsv(o, commit_ok) ==
    /\ Ingest("insert_from_csv", o, commit_ok)
    /\ UNCHANGED <<inp, run>>

InsertFromJson(o, commit_ok) ==
    /\ Ingest("insert_from_json", o, commit_ok)
    /\ UNCHANGED <<inp, run>>

\* The call on the input under observation.
CsvCall(commit_ok) ==
    /\ run' = insert_from_csv(inp)
    /\ Ingest("insert_from_csv", Outcome(run'), commit_ok)
    /\ UNCHANGED inp

JsonCall(commit_ok) ==
    /\ run' = insert_from_json(inp)
    /\ Ingest("insert_from_json", Outcome(run'), commit_ok)
    /\ UNCHANGED inp

\* ---------------------------------------------------------- credential store
\* Texts are sequences of characters.  A username is any text of
\* 1..MaxNameLen characters over UserChars, which leaves out the comma (the
\* field delimiter of users.txt); a password is one character.
UserChars == {"a", "b", " "}
Usernames == UNION {[1..n -> UserChars] : n \in 1..MaxNameLen}
Passwords == {<<"p">>, <<"q">>}
Salts == {"1", "2"}

\* bcrypt.hashpw(password, salt): the text "$" salt digest, where the digest
\* is a one-to-one image of (salt, password); it holds no comma and no
\* whitespace.
hashpw(password, salt) == <<"$", salt>> \o password

\* bcrypt.checkpw: hash the password with the salt of the stored hash.
verify_password(password, hashed) ==
    Len(hashed) >= 2 /\ hashpw(password, hashed[2]) = hashed

\* `for line in f`: the text cut after each "\n".
RECURSIVE Lines(_, _)
Lines(text, cur) ==
    IF text = <<>> THEN (IF cur = <<>> THEN <<>> ELSE <<cur>>)
    ELSE IF Head(text) = "\n" THEN <<Append(cur, "\n")>> \o Lines(Tail(text), <<>>)
    ELSE Lines(Tail(text), Append(cur, Head(text)))

\* str.split(","): the pieces between the commas.
RECURSIVE Split(_, _)
Split(s, cur) ==
    IF s = <<>> THEN <<cur>>
    ELSE IF Head(s) = "," THEN <<cur>> \o Split(Tail(s), <<>>)
    ELSE Split(Tail(s), Append(cur, Head(s)))

\* line.strip().split(",")
Fields(line) == Split(Strip(line), <<>>)

\* The loop of user_exists over the lines: "True", "False", or "ValueError"
\* when a line does not unpack into two fields.
RECURSIVE ExistsScan(_, _)
ExistsScan(lines, username) ==
    IF lines = <<>> THEN "False"
    ELSE LET parts == Fields(Head(lines))
         IN  IF Len(parts) # 2 THEN "ValueError"
             ELSE IF parts[1] = username THEN "True"
             ELSE ExistsScan(Tail(lines), username)

user_exists(file, username) ==
    IF file = <<>> THEN "False" ELSE ExistsScan(Lines(file[1], <<>>), username)

MsgExists   == "Error: Username already exists."
MsgOk       == "Success: User registered successfully!"
MsgNoUsers  == "No users registered yet."
MsgWelcome  == "Success: Welcome!"
MsgInvalid  == "Error: Invalid password."
MsgNotFound == "Error: Username not found."

\* register_user: ret is "True", "False" or the exception; msg what it prints.
register_user(file, username, password, salt) ==
    LET e == user_exists(file, username)
    IN  IF e = "ValueError" THEN [file |-> file, ret |-> e, msg |-> ""]
        ELSE IF e = "True" THEN [file |-> file, ret |-> "False", msg |-> MsgExists]
        ELSE LET hashed == hashpw(password, salt)
                 text == IF file = <<>> THEN <<>> ELSE file[1]
             IN  [file |-> <<text \o username \o <<",">> \o hashed \o <<"\n">>>>,
                  ret |-> "True", msg |-> MsgOk]

RECURSIVE LoginScan(_, _, _)
LoginScan(lines, username, password) ==
    IF lines = <<>> THEN [ret |-> "False", msg |-> MsgNotFound]
    ELSE LET parts == Fields(Head(lines))
         IN  IF Len(parts) # 2 THEN [ret |-> "ValueError", msg |-> ""]
             ELSE IF parts[1] = username
                  THEN IF verify_password(password, parts[2])
                       THEN [ret |-> "True", msg |-> MsgWelcome]
                       ELSE [ret |-> "False", msg |-> MsgInvalid]
             ELSE LoginScan(Tail(lines), username, password)

login_user(file, username, password) ==
    IF file = <<>> THEN [ret |-> "False", msg |-> MsgNoUsers]
    ELSE LoginScan(Lines(file[1], <<>>), username, password)

\* known: register_user had accepted the username before this call.
ALast(op, username, password, known, ret, msg) ==
    [op |-> op, username |-> username, password |-> password, known |-> known,
     ret |-> ret, msg |-> msg]

Known(username) == \E k \in 1..Len(accepted) : accepted[k][1] = username

RegisterUser(username, password, salt) ==
    /\ Len(accepted) < MaxUsers
    /\ LET r == register_user(users, username, password, salt)
       IN  /\ users' = r.file
           /\ accepted' = IF r.ret = "True"
                          THEN Append(accepted, <<username, password>>)
                          ELSE accepted
           /\ alast' = ALast("register_user", username, password, Known(username),
                             r.ret, r.msg)
    /\ UNCHANGED <<conn, openConns, durable, pending, inWith, last, inp, run>>

LoginUser(username, password) ==
    /\ LET r == login_user(users, username, password)
       IN  alast' = ALast("login_user", username, password, Known(username),
                          r.ret, r.msg)
    /\ UNCHANGED <<conn, openConns, durable, pending, inWith, last, inp, run,
                   users, accepted>>

NextAuth ==
    \/ \E username \in Usernames, password \in Passwords, salt \in Salts :
          RegisterUser(username, password, salt)
    \/ \E username \in Usernames, password \in Passwords :
          LoginUser(username, password)

\* --------------------------------------------------------- the bulk loader
NoInput == [file |-> [kind |-> "none"], columns |-> <<>>, has_header |-> FALSE,
            batch_size |-> 0]

InitLoader ==
    /\ conn = 0
    /\ openConns = {}
    /\ durable = <<>>
    /\ pending = <<>>
    /\ inWith = FALSE
    /\ last = Plain("init", None, FALSE, 0)
    /\ run = NoRun

InitAuth ==
    /\ users = <<>>
    /\ accepted = <<>>
    /\ alast = ALast("init", <<>>, <<>>, FALSE, "False", "")

Init ==
    /\ InitLoader
    /\ inp = NoInput
    /\ InitAuth

Next ==
    \/ Connect
    \/ Enter
    \/ \E commit_ok \in BOOLEAN : Close(commit_ok)
    \/ \E exc_type \in BOOLEAN, commit_ok \in BOOLEAN : Exit(exc_type, commit_ok)
    \/ \E sql \in SqlTexts, fetch \in BOOLEAN, commit_ok \in BOOLEAN :
          RunSql(sql, fetch, commit_ok)
    \/ \E o \in CsvOutcomes, commit_ok \in BOOLEAN : InsertFromCsv(o, commit_ok)
    \/ \E o \in JsonOutcomes, commit_ok \in BOOLEAN : InsertFromJson(o, commit_ok)

Spec == Init /\ [][Next]_vars

\* ------------------------------------------- one CSV input and what follows
InitCsv ==
    /\ InitLoader
    /\ inp \in CsvArgs
    /\ InitAuth

NextCsv ==
    \/ \E commit_ok \in BOOLEAN : CsvCall(commit_ok)
    \/ \E commit_ok \in BOOLEAN : Close(commit_ok)

SpecCsv == InitCsv /\ [][NextCsv]_vars

\* ------------------------------------------ one JSON input and what follows
InitJson ==
    /\ InitLoader
    /\ inp \in JsonArgs
    /\ InitAuth

NextJson ==
    \/ \E commit_ok \in BOOLEAN : JsonCall(commit_ok)
    \/ \E commit_ok \in BOOLEAN : Close(commit_ok)

SpecJson == InitJson /\ [][NextJson]_vars

\* ------------------------------------------------------ the credential store
SpecAuth == Init /\ [][NextAuth]_vars

\* =================================================================== claims

\* --------------------------------------------------------------------- C1
\* C1: in any sequence of register_user calls, a call whose username was
\* accepted before returns False (AlreadyExists) and adds nothing, so no
\* username is accepted twice; and a login with an accepted username
\* succeeds exactly with the password of its first registration.
FirstPassword(username) ==
    accepted[CHOOSE k \in 1..Len(accepted) :
                /\ accepted[k][1] = username
                /\ \A j \in 1..(k - 1) : accepted[j][1] # username][2]

C1_DuplicateRejected ==
    /\ (alast.op = "register_user" /\ alast.known) => alast.ret = "False"
    /\ \A i, j \in 1..Len(accepted) : accepted[i][1] = accepted[j][1] => i = j
    /\ (alast.op = "login_user" /\ alast.known) =>
          (alast.ret = "True" <=> alast.password = FirstPassword(alast.username))

\* --------------------------------------------------------------------- C2
\* C2: every login attempt ends in one of NoUsersYet, UserNotFound,
\* InvalidPassword and Success, chosen by the store's records, and the
\* returned result tells the outcomes apart: two attempts in a row that end
\* in different outcomes return different results.
LoginOutcome(file, username, password) ==
    LET lines == IF file = <<>> THEN <<>> ELSE Lines(file[1], <<>>)
        hit == {k \in 1..Len(lines) : Fields(lines[k])[1] = username}
    IN  IF lines = <<>> THEN MsgNoUsers
        ELSE IF hit = {} THEN MsgNotFound
        ELSE LET k == CHOOSE k \in hit : \A j \in hit : k <= j
             IN  IF verify_password(password, Fields(lines[k])[2])
                 THEN MsgWelcome ELSE MsgInvalid

C2_FourOutcomes ==
    [][ alast'.op = "login_user" =>
          /\ alast'.ret \in {"True", "False"}
          /\ alast'.msg = LoginOutcome(users', alast'.username, alast'.password)
          /\ (alast.op = "login_user" /\ alast.msg # alast'.msg) =>
                alast.ret # alast'.ret ]_vars

\* --------------------------------------------------------------------- C3
\* C3: an ingestion call that raises inside its loop (an element that is
\* not an object, a batch that sqlite rejects) leaves none of its rows
\* durable, at the moment of the failure and after any later close().
IngestOps == {"insert_from_csv", "insert_from_json"}

C3_AllOrNothing ==
    run.exc # None =>
        \A k \in 1..Len(durable) : durable[k].op \in IngestOps => ~durable[k].raised

\* --------------------------------------------------------------------- C4
\* The data rows of a CSV input: its lines that are not blank, after the
\* header line when the call says there is one.  A header line names at
\* least one column.
NonBlank(ls) == SelectSeq(ls, LAMBDA l : l # <<>>)
AfterHeader(a) ==
    IF a.has_header THEN (IF a.file.rows = <<>> THEN <<>> ELSE Tail(a.file.rows))
    ELSE a.file.rows
DataRows(a) == NonBlank(AfterHeader(a))
ProperHeader(a) == (a.has_header /\ a.file.rows # <<>>) => a.file.rows[1] # <<>>

\* C4: insert_from_csv on a file with N data rows and batch size B returns
\* N after ceil(N/B) flushes; every flush but the last carries B rows, the
\* last the remaining 1..B; the rows go out in source order.
C4_Batches ==
    (last.op = "insert_from_csv" /\ last.exc = None /\ ProperHeader(inp)) =>
        LET N == Len(DataRows(inp))
            B == inp.batch_size
            F == run.flushes
        IN  /\ last.value.count = N
            /\ Len(F) = (N + B - 1) \div B
            /\ \A k \in 1..Len(F) :
                  Len(F[k]) = IF k < Len(F) THEN B ELSE N - B * (Len(F) - 1)
            /\ Concat(F) = run.appended
            /\ Len(run.appended) = N

\* --------------------------------------------------------------------- C5
\* The ColumnSet of a JSON call: the explicit columns, else the keys of the
\* first element.  ValueOf is the object's value for a key, Null without it.
AllObjects(a) ==
    \/ a.file.root = "object"
    \/ a.file.root = "array" /\ \A k \in 1..Len(a.file.data) : a.file.data[k].isdict
Objects(a) == IF a.file.root = "object" THEN <<a.file.data>> ELSE a.file.data
ColumnSet(a) ==
    IF a.columns # <<>> THEN a.columns[1]
    ELSE IF Objects(a) = <<>> THEN <<>>
    ELSE [j \in 1..Len(Objects(a)[1].pairs) |-> Objects(a)[1].pairs[j][1]]
ValueOf(obj, key) ==
    LET vs == {pr[2] : pr \in {q \in Range(obj.pairs) : q[1] = key}}
    IN  IF vs = {} THEN Null ELSE CHOOSE v \in vs : TRUE
OneRowPerObject(a) ==
    /\ run.exc = None
    /\ last.value.count = Len(Objects(a))
    /\ Len(run.rows) = Len(Objects(a))
    /\ Concat(run.flushes) =
          [k \in 1..Len(Objects(a)) |->
              [c \in 1..Len(ColumnSet(a)) |-> ValueOf(Objects(a)[k], ColumnSet(a)[c])]]

C6_ExitRollsBack ==
    [][ (inWith /\ ~inWith') =>
          /\ conn' = 0
          /\ openConns' = {}
          /\ pending' = <<>>
          /\ last'.exc_type => durable' = durable
          /\ (~last'.exc_type /\ conn # 0) =>
                IF last'.exc = None THEN durable' = durable \o pending
                ELSE durable' = durable ]_vars

\* An exception left the block while the transaction held rows.
C6_Witness == last.op = "exit" /\ last.exc_type /\ last.dropped > 0

\* --------------------------------------------------------------------- C7
\* C7: the loader owns at most one open connection, the one in self.conn;
\* connect on an open loader keeps the connection and the transaction;
\* every operation on a closed loader opens one; close on a closed loader
\* changes nothing; close on an open loader commits the whole transaction
\* and leaves the loader closed, also when the commit fails.
OpensLazily == {"connect", "enter", "run_sql", "insert_from_csv", "insert_from_json"}

C7_OneConnection ==
    [][ /\ openConns' = (IF conn' = 0 THEN {} ELSE {conn'})
        /\ last'.op \in OpensLazily =>
              (conn' # 0 /\ (conn # 0 => conn' = conn))
        /\ (last'.op = "connect" /\ conn # 0) =>
              (pending' = pending /\ durable' = durable)
        /\ (last'.op = "close" /\ conn = 0) =>
              (conn' = 0 /\ pending' = pending /\ durable' = durable)
        /\ (last'.op = "close" /\ conn # 0) =>
              /\ conn' = 0
              /\ last'.exc = None => durable' = durable \o pending ]_vars

\* connect was called on a loader whose transaction holds rows.
C7_Witness == last.op = "connect" /\ conn # 0 /\ pending # <<>>

\* --------------------------------------------------------------------- C8
\* The leading keyword of a statement is SELECT: after the leading
\* whitespace come the letters s, e, l, e, c, t in either case.
Letter(c, low, up) == c = low \/ c = up
LeadsWithSelect(sql) ==
    \E i \in 0..Len(sql) :
        /\ \A j \in 1..i : sql[j] \in Whitespace
        /\ Len(sql) >= i + 6
        /\ Letter(sql[i + 1], "s", "S") /\ Letter(sql[i + 2], "e", "E")
        /\ Letter(sql[i + 3], "l", "L") /\ Letter(sql[i + 4], "e", "E")
        /\ Letter(sql[i + 5], "c", "C") /\ Letter(sql[i + 6], "t", "T")

\* C8: run_sql returns the fetched rows and commits nothing exactly when
\* the statement leads with SELECT and fetch is set; every other call that
\* succeeds commits the whole transaction and returns the affected-row
\* count; a call that raises makes nothing durable.
C8_FetchOrCommit ==
    [][ last'.op = "run_sql" =>
          LET reads == LeadsWithSelect(last'.sql) /\ last'.fetch
          IN  /\ (last'.exc = None /\ reads) =>
                    /\ last'.value.isrows
                    /\ ~last'.committed
                    /\ durable' = durable
                    /\ Len(last'.value.rows) = Len(durable') + Len(pending')
              /\ (last'.exc = None /\ ~reads) =>
                    /\ ~last'.value.isrows
                    /\ last'.committed
                    /\ pending' = <<>>
                    /\ Len(durable') = Len(durable) + Len(pending)
                                         + (IF last'.value.count = 1 THEN 1 ELSE 0)
                    /\ SubSeq(durable', 1, Len(durable) + Len(pending))
                          = durable \o pending
                    /\ last'.value.count \in {1, -1}
              /\ last'.exc # None => durable' = durable ]_vars

\* A fetched SELECT returned rows and left the transaction uncommitted.
C8_Witness ==
    /\ last.op = "run_sql"
    /\ last.value.isrows
    /\ last.sql # KwSelect
    /\ pending # <<>>

\* --------------------------------------------------------------------- C9
\* C9: every tuple insert_from_csv appends to a batch has as many values
\* as the ColumnSet has columns.
C9_Arity ==
    last.op = "insert_from_csv" =>
        \A k \in 1..Len(run.appended) : Len(run.appended[k]) = Len(run.cols)

\* -------------------------------------------------------------------- C10
\* C10: with has_header the first line of the file is never inserted as a
\* data row, and the count returned is the number of rows after it.
C10_HeaderSkipped ==
    (last.op = "insert_from_csv" /\ inp.has_header /\ inp.file.rows # <<>>
        /\ ProperHeader(inp)) =>
        /\ inp.file.rows[1] \notin Range(run.appended)
        /\ last.exc = None => last.value.count = Len(DataRows(inp))

====
